---- MODULE Spec2Model ----
(***************************************************************************)
(* A model of discord/emoji.py: the Emoji record, its construction from a  *)
(* raw payload (_from_data), its field enumeration (_iterator), its string *)
(* conversion (__str__), the equality/hash contract it inherits from       *)
(* Hashable, and the two coroutines delete() and edit() that delegate to   *)
(* the HTTP transport.                                                     *)
(*                                                                         *)
(* Python values are tagged records, so that 3 and "3" are different       *)
(* values, as they are for Python's == and for set membership.  A string   *)
(* is a sequence of one-character strings.                                 *)
(***************************************************************************)
EXTENDS Integers, Sequences, FiniteSets, TLC

\* ------------------------------------------------------------------ bounds

\* Guild role ids range over 1..MaxRole.
MaxRole == 3
\* The number of delete()/edit() invocations that may be in flight together.
MaxCalls == 2

\* ---------------------------------------------------------- Python values

None_ == [t |-> "none"]
PyBool(b) == [t |-> "bool", b |-> b]
PyInt(n) == [t |-> "int", n |-> n]
PyStr(s) == [t |-> "str", s |-> s]
PyList(l) == [t |-> "list", l |-> l]

\* A role entity of the guild; only its id is read by emoji.py.
Role(k) == [t |-> "role", id |-> PyInt(k)]
\* The guild back-reference; guild.id is g and guild.roles is guildRoles[g].
GuildRef(g) == [t |-> "guild", g |-> g]
\* The connection state whose .http is the transport.
StateRef == [t |-> "state"]

\* bool(value) for the values a payload's `roles` entry can hold.
Truthy(v) ==
  CASE v.t = "list" -> Len(v.l) > 0
    [] v.t = "str" -> Len(v.s) > 0
    [] v.t = "int" -> v.n # 0
    [] v.t = "bool" -> v.b
    [] v.t = "none" -> FALSE
    [] OTHER -> TRUE

\* set(list): the elements as a set of Python values.
PySet(v) == {v.l[k] : k \in 1..Len(v.l)}

Digits == <<"0", "1", "2", "3", "4", "5", "6", "7", "8", "9">>

IsDigit(c) == \E d \in 1..Len(Digits) : Digits[d] = c

DigitVal(c) == (CHOOSE d \in 1..Len(Digits) : Digits[d] = c) - 1

\* The number a non-empty sequence of decimal digits denotes.
RECURSIVE ParseDigits(_)
ParseDigits(s) ==
  IF Len(s) = 0 THEN 0
  ELSE ParseDigits(SubSeq(s, 1, Len(s) - 1)) * Len(Digits) + DigitVal(s[Len(s)])

\* The decimal digits of a natural number, without leading zeros.
RECURSIVE DecimalOf(_)
DecimalOf(n) ==
  IF n < Len(Digits) THEN <<Digits[n + 1]>>
  ELSE DecimalOf(n \div Len(Digits)) \o <<Digits[(n % Len(Digits)) + 1]>>

\* int(value): [exc, val].  A str must be decimal digits (the payload ids
\* modelled carry no sign, blank or underscore).
IntConv(v) ==
  CASE v.t = "int" -> [exc |-> "", val |-> PyInt(v.n)]
    [] v.t = "bool" -> [exc |-> "", val |-> PyInt(IF v.b THEN 1 ELSE 0)]
    [] v.t = "str" ->
         IF Len(v.s) > 0 /\ \A k \in 1..Len(v.s) : IsDigit(v.s[k])
         THEN [exc |-> "", val |-> PyInt(ParseDigits(v.s))]
         ELSE [exc |-> "ValueError", val |-> None_]
    [] OTHER -> [exc |-> "TypeError", val |-> None_]

\* format(value, ''), as "{0.name}" and "{0.id}" apply it.
Format(v) ==
  CASE v.t = "str" -> v.s
    [] v.t = "int" -> DecimalOf(v.n)
    [] v.t = "none" -> <<"N", "o", "n", "e">>
    [] v.t = "bool" -> IF v.b THEN <<"T", "r", "u", "e">>
                       ELSE <<"F", "a", "l", "s", "e">>

\* ------------------------------------------------------------ the object

\* __slots__, in declaration order.
Slots == <<"require_colons", "managed", "id", "name", "roles", "guild", "_state">>

\* attr[0] for each slot name.
FirstChar(attr) ==
  CASE attr = "require_colons" -> "r"
    [] attr = "managed" -> "m"
    [] attr = "id" -> "i"
    [] attr = "name" -> "n"
    [] attr = "roles" -> "r"
    [] attr = "guild" -> "g"
    [] attr = "_state" -> "_"

\* An object is a function from the slots assigned so far to their values.
NewObject == [k \in {} |-> None_]

SetAttr(obj, attr, value) ==
  [k \in (DOMAIN obj) \cup {attr} |-> IF k = attr THEN value ELSE obj[k]]

\* getattr(obj, attr, default)
GetAttr(obj, attr, default) ==
  IF attr \in DOMAIN obj THEN obj[attr] ELSE default

\* ------------------------------------------------------------- _from_data

\* A faulty variant of ConvertId: the payload's id kept as received, not converted.
ConvertIdKeepsRaw(v) == [exc |-> "", val |-> v]

\* self.id = int(emoji['id'])
ConvertId(v) == IntConv(v)

\* A faulty variant of ReadRequired: `name` is read before the id is converted.
ReadRequiredNameFirst(self, emoji) ==
  IF "require_colons" \notin DOMAIN emoji THEN [exc |-> "KeyError", self |-> self]
  ELSE IF "managed" \notin DOMAIN emoji THEN [exc |-> "KeyError", self |-> self]
  ELSE IF "name" \notin DOMAIN emoji THEN [exc |-> "KeyError", self |-> self]
  ELSE IF "id" \notin DOMAIN emoji THEN [exc |-> "KeyError", self |-> self]
  ELSE LET conv == ConvertId(emoji["id"])
           s1 == SetAttr(self, "require_colons", emoji["require_colons"])
           s2 == SetAttr(s1, "managed", emoji["managed"])
           s3 == SetAttr(s2, "name", emoji["name"])
       IN IF conv.exc # "" THEN [exc |-> conv.exc, self |-> s3]
          ELSE [exc |-> "", self |-> SetAttr(s3, "id", conv.val)]

\* The four required reads, in the order the code makes them; a missing key
\* raises KeyError at its own line, a failed int() raises at line 86.
ReadRequired(self, emoji) ==
  IF "require_colons" \notin DOMAIN emoji THEN [exc |-> "KeyError", self |-> self]
  ELSE LET s1 == SetAttr(self, "require_colons", emoji["require_colons"]) IN
  IF "managed" \notin DOMAIN emoji THEN [exc |-> "KeyError", self |-> s1]
  ELSE LET s2 == SetAttr(s1, "managed", emoji["managed"]) IN
  IF "id" \notin DOMAIN emoji THEN [exc |-> "KeyError", self |-> s2]
  ELSE LET conv == ConvertId(emoji["id"]) IN
  IF conv.exc # "" THEN [exc |-> conv.exc, self |-> s2]
  ELSE LET s3 == SetAttr(s2, "id", conv.val) IN
  IF "name" \notin DOMAIN emoji THEN [exc |-> "KeyError", self |-> s3]
  ELSE [exc |-> "", self |-> SetAttr(s3, "name", emoji["name"])]

\* A faulty variant of ResolveRoles: the result follows the payload's order.
RECURSIVE RolesInPayloadOrder(_, _)
RolesInPayloadOrder(raw, groles) ==
  IF ~Truthy(raw) THEN raw
  ELSE LET head == raw.l[1]
           rest == RolesInPayloadOrder(PyList(Tail(raw.l)), groles)
           hit == SelectSeq(groles, LAMBDA role : role.id = head)
       IN PyList(hit \o (IF rest.t = "list" THEN rest.l ELSE <<>>))

\* if self.roles: roles = set(self.roles);
\*                self.roles = [role for role in self.guild.roles if role.id in roles]
ResolveRoles(raw, groles) ==
  IF Truthy(raw)
  THEN LET roles == PySet(raw)
       IN PyList(SelectSeq(groles, LAMBDA role : role.id \in roles))
  ELSE raw

\* _from_data(self, emoji), with self.guild.roles passed as groles.
FromData(self, emoji, groles) ==
  LET req == ReadRequired(self, emoji) IN
  IF req.exc # "" THEN req
  ELSE LET raw == IF "roles" \in DOMAIN emoji THEN emoji["roles"] ELSE PyList(<<>>)
       IN [exc |-> "", self |-> SetAttr(req.self, "roles", ResolveRoles(raw, groles))]

\* Emoji(guild=guild, state=state, data=data)
NewEmoji(guild, state, data, groles) ==
  FromData(SetAttr(SetAttr(NewObject, "guild", guild), "_state", state), data, groles)

\* --------------------------------------------------- _iterator and __str__

\* A faulty variant of IteratorFrom: the leading-underscore test is dropped.
RECURSIVE IteratorFromNoFilter(_, _)
IteratorFromNoFilter(self, k) ==
  IF k > Len(Slots) THEN <<>>
  ELSE LET attr == Slots[k]
           value == GetAttr(self, attr, None_)
       IN (IF value # None_ THEN << <<attr, value>> >> ELSE <<>>)
          \o IteratorFromNoFilter(self, k + 1)

\* for attr in self.__slots__: if attr[0] != '_': value = getattr(self, attr, None);
\*                             if value is not None: yield (attr, value)
\* The pairs yielded from the k-th slot on.  The generator is drained at once:
\* no field changes between two of its steps.
RECURSIVE IteratorFrom(_, _)
IteratorFrom(self, k) ==
  IF k > Len(Slots) THEN <<>>
  ELSE LET attr == Slots[k]
           value == GetAttr(self, attr, None_)
       IN (IF FirstChar(attr) # "_" /\ value # None_
           THEN << <<attr, value>> >> ELSE <<>>)
          \o IteratorFrom(self, k + 1)

\* list(iter(self))
Iterator(self) == IteratorFrom(self, 1)

\* A faulty variant of Str: name and id change places.
StrIdFirst(self) ==
  <<"<", ":">> \o Format(self["id"]) \o <<":">> \o Format(self["name"]) \o <<">">>

\* "<:{0.name}:{0.id}>".format(self)
Str(self) ==
  <<"<", ":">> \o Format(self["name"]) \o <<":">> \o Format(self["id"]) \o <<">">>

\* ------------------------------------------------- Hashable (mixins.py)

\* EqualityComparable.__eq__: same class and same id.
Eq(self, other) ==
  /\ "id" \in DOMAIN other
  /\ other["id"] = self["id"]

\* EqualityComparable.__ne__
Ne(self, other) ==
  IF "id" \in DOMAIN other THEN other["id"] # self["id"] ELSE TRUE

\* Hashable.__hash__: a code determined by the id alone, distinct for
\* distinct ids.
Hash(self) == self["id"]

\* ------------------------------------------------------------ the inputs

Absent == [t |-> "absent"]
NotRun == [t |-> "notrun"]
NoObj == [t |-> "noobj"]

\* The raw mapping: the keys whose value is not Absent.
MkPayload(rc, m, i, n, r) ==
  LET full == [require_colons |-> rc, managed |-> m, id |-> i, name |-> n, roles |-> r]
      keys == {k \in DOMAIN full : full[k] # Absent}
  IN [k \in keys |-> full[k]]

Foo == <<"f", "o", "o">>
Bar == <<"b", "a", "r">>
Id12345 == <<"1", "2", "3", "4", "5">>

\* An id unknown to every guild.
UnknownRole == MaxRole + 96

BoolVals == {PyBool(TRUE), PyBool(FALSE)}

\* `id` as the wire gives it: a number, a decimal string, or a malformed string.
IdVals == {PyInt(1), PyStr(<<"1">>), PyStr(Id12345), PyStr(<<"x">>)}

\* `name`: a string, or null as the platform sends for a deleted emoji.
NameVals == {PyStr(Foo), None_}

\* `roles` lists: ids as numbers or as strings, in an order of the payload's
\* own, with unknown and repeated ids.
RolesVals ==
  { PyList(<<>>),
    PyList(<<PyInt(3), PyInt(1)>>),
    PyList(<<PyInt(3), PyInt(1), PyInt(UnknownRole)>>),
    PyList(<<PyStr(<<"3">>), PyStr(<<"1">>)>>),
    PyList(<<PyInt(2)>>),
    PyList(<<PyInt(2), PyInt(2), PyInt(1)>>),
    PyList(<<PyInt(UnknownRole)>>),
    PyList(<<PyStr(<<"2">>), PyInt(3)>>) }

Payloads ==
  { MkPayload(rc, m, i, n, r) :
      rc \in BoolVals \cup {Absent}, m \in BoolVals \cup {Absent},
      i \in IdVals \cup {Absent}, n \in NameVals \cup {Absent},
      r \in RolesVals \cup {Absent} }

\* guild.roles: every ordering of every subset of the role ids.
GuildRoleLists ==
  LET idSeqs == UNION {[1..n -> 1..MaxRole] : n \in 0..MaxRole}
      distinct == {s \in idSeqs : \A a, b \in 1..Len(s) : a # b => s[a] # s[b]}
  IN {[k \in 1..Len(s) |-> Role(s[k])] : s \in distinct}

HomeGuild == 10
OtherGuild == 20

\* ------------------------------------------------------------- the state

VARIABLES
  guildRoles,  \* guild id -> guild.roles
  emoji,       \* instance -> the Emoji object (its slots), NoObj before construction
  ctor,        \* instance -> the constructor call: its data, its exception, its result
  iterOut,     \* instance -> the pairs list(iter(emoji)) returned last
  strOut,      \* instance -> the string str(emoji) returned last
  cmp,         \* the last comparison: operands, ==, !=, both hashes
  calls,       \* invocation -> the delete()/edit() coroutine's frame
  httpLog      \* the requests received by the transport, in order

vars == <<guildRoles, emoji, ctor, iterOut, strOut, cmp, calls, httpLog>>

Instances == DOMAIN emoji

\* A coroutine not yet called.
NoCall == [pc |-> "new", op |-> "", inst |-> 0, name |-> None_, reply |-> "",
           outcome |-> "", pre |-> NoObj, yields |-> 0]

InitWith(insts, groles) ==
  /\ guildRoles = groles
  /\ emoji = [i \in insts |-> NoObj]
  /\ ctor = [i \in insts |-> NotRun]
  /\ iterOut = [i \in insts |-> NotRun]
  /\ strOut = [i \in insts |-> NotRun]
  /\ cmp = NotRun
  /\ calls = [c \in 1..MaxCalls |-> NoCall]
  /\ httpLog = <<>>

\* One instance to construct, in a guild with any role list.
Init == \E rl \in GuildRoleLists : InitWith({1}, [g \in {HomeGuild} |-> rl])

\* Emoji(guild=g, state=state, data=data) assigned to instance i.
Construct(i, g, data) ==
  /\ ctor[i] = NotRun
  /\ LET res == NewEmoji(GuildRef(g), StateRef, data, guildRoles[g])
     IN /\ ctor' = [ctor EXCEPT ![i] =
                      [guild |-> g, data |-> data, exc |-> res.exc,
                       self |-> IF res.exc = "" THEN res.self ELSE NoObj]]
        /\ emoji' = [emoji EXCEPT ![i] = IF res.exc = "" THEN res.self ELSE NoObj]
  /\ UNCHANGED <<guildRoles, iterOut, strOut, cmp, calls, httpLog>>

\* list(iter(emoji[i]))
Iterate(i) ==
  /\ emoji[i] # NoObj
  /\ iterOut' = [iterOut EXCEPT ![i] = Iterator(emoji[i])]
  /\ UNCHANGED <<guildRoles, emoji, ctor, strOut, cmp, calls, httpLog>>

\* str(emoji[i])
Render(i) ==
  /\ emoji[i] # NoObj
  /\ strOut' = [strOut EXCEPT ![i] = PyStr(Str(emoji[i]))]
  /\ UNCHANGED <<guildRoles, emoji, ctor, iterOut, cmp, calls, httpLog>>

Next ==
  \/ \E i \in Instances, g \in DOMAIN guildRoles, data \in Payloads : Construct(i, g, data)
  \/ \E i \in Instances : Iterate(i)
  \/ \E i \in Instances : Render(i)

Spec == Init /\ [][Next]_vars

\* ------------------------------------------------ claims on construction

\* The instances whose constructor returned an object.
Constructed == {i \in Instances : ctor[i] # NotRun /\ ctor[i].exc = ""}

\* Whether a value occurs in a payload list, as Python's == decides it.
Occurs(v, lst) == \E k \in 1..Len(lst.l) : lst.l[k] = v

\* The place of a role in a role list (0 when it is not there).
PlaceIn(groles, role) ==
  IF \E j \in 1..Len(groles) : groles[j] = role
  THEN CHOOSE j \in 1..Len(groles) : groles[j] = role
  ELSE 0

Roles123 == <<Role(1), Role(2), Role(3)>>

\* C1: the roles of a constructed Emoji are the empty sequence when the
\* payload has no `roles` key or an empty one; otherwise exactly the guild's
\* roles whose id occurs in the payload's `roles`, in the guild's order, ids
\* unknown to the guild dropped.  Guild roles [1,2,3] with payload roles
\* [3,1,99] give [role(1), role(3)].
C1_RolesFilteredInGuildOrder ==
  \A i \in Constructed :
    LET data == ctor[i].data
        groles == guildRoles[ctor[i].guild]
        roles == emoji[i]["roles"]
    IN /\ roles.t = "list"
       /\ ("roles" \notin DOMAIN data \/ Len(data["roles"].l) = 0) => roles.l = <<>>
       /\ ("roles" \in DOMAIN data /\ Len(data["roles"].l) > 0) =>
            /\ \A k \in 1..Len(roles.l) :
                 /\ PlaceIn(groles, roles.l[k]) > 0
                 /\ Occurs(roles.l[k].id, data["roles"])
            /\ \A j \in 1..Len(groles) :
                 Occurs(groles[j].id, data["roles"]) =>
                   \E k \in 1..Len(roles.l) : roles.l[k] = groles[j]
            /\ \A a, b \in 1..Len(roles.l) :
                 a < b => PlaceIn(groles, roles.l[a]) < PlaceIn(groles, roles.l[b])
       /\ (groles = Roles123 /\ "roles" \in DOMAIN data
             /\ data["roles"].l = <<PyInt(3), PyInt(1), PyInt(UnknownRole)>>)
            => roles.l = <<Role(1), Role(3)>>

\* C1 witness: guild roles [1,2,3] and payload roles [3,1,99] were resolved
\* to [role(1), role(3)].
C1_Witness ==
  \E i \in Constructed :
    /\ guildRoles[ctor[i].guild] = Roles123
    /\ "roles" \in DOMAIN ctor[i].data
    /\ ctor[i].data["roles"].l = <<PyInt(3), PyInt(1), PyInt(UnknownRole)>>
    /\ emoji[i]["roles"].l = <<Role(1), Role(3)>>

\* The identifier a wire id denotes, given as a number or as a decimal string.
Denotes(v) == IF v.t = "int" THEN DecimalOf(v.n) ELSE v.s

\* C2: a payload role id matches a guild role whenever both denote the same
\* identifier, whether the payload gives it as a string or as a number: with
\* guild roles [1,2,3], payload roles ["3","1"] and [3,1] both give
\* [role(1), role(3)].
C2_StringAndNumberIdsMatch ==
  \A i \in Constructed :
    LET data == ctor[i].data
        groles == guildRoles[ctor[i].guild]
        roles == emoji[i]["roles"]
    IN ("roles" \in DOMAIN data /\ Len(data["roles"].l) > 0) =>
         /\ \A j \in 1..Len(groles) :
              (\E k \in 1..Len(data["roles"].l) :
                 Denotes(data["roles"].l[k]) = Denotes(groles[j].id))
              <=> (\E k \in 1..Len(roles.l) : roles.l[k] = groles[j])
         /\ (groles = Roles123
               /\ data["roles"].l \in {<<PyInt(3), PyInt(1)>>,
                                       <<PyStr(<<"3">>), PyStr(<<"1">>)>>})
              => roles.l = <<Role(1), Role(3)>>

RequiredKeys == {"id", "name", "require_colons", "managed"}

\* Whether int() accepts a wire id: a number, or a string of decimal digits.
Convertible(v) ==
  \/ v.t = "int"
  \/ v.t = "str" /\ Len(v.s) > 0
       /\ \A k \in 1..Len(v.s) : \E d \in 0..9 : v.s[k] = DecimalOf(d)[1]

\* C7 as stated: construction fails with KeyError whenever a required key is
\* absent, and not with that kind when all four are present.
C7_KeyErrorIffRequiredKeyAbsent ==
  \A i \in Instances :
    ctor[i] # NotRun =>
      ((RequiredKeys \ DOMAIN ctor[i].data # {}) <=> ctor[i].exc = "KeyError")

\* C7 amended: construction fails whenever a required key is absent; the
\* failure is KeyError exactly when require_colons, managed or id is absent,
\* or name is absent and the id converts to an integer.  With only `name`
\* absent and an id int() rejects, the conversion error is raised first.
C7_KeyErrorUnlessIdRejectedFirst ==
  \A i \in Instances :
    ctor[i] # NotRun =>
      LET data == ctor[i].data
          early == {"require_colons", "managed", "id"} \ DOMAIN data # {}
      IN /\ (RequiredKeys \ DOMAIN data # {}) => ctor[i].exc # ""
         /\ ctor[i].exc = "KeyError" <=>
              (early \/ ("name" \notin DOMAIN data /\ Convertible(data["id"])))
         /\ (~early /\ "name" \notin DOMAIN data /\ ~Convertible(data["id"]))
              => ctor[i].exc \in {"ValueError", "TypeError"}
         /\ (RequiredKeys \subseteq DOMAIN data) => ctor[i].exc # "KeyError"

\* C7 witness: a payload lacking only `name`, with a well-formed id, was
\* refused with KeyError.
C7_Witness ==
  \E i \in Instances :
    /\ ctor[i] # NotRun
    /\ RequiredKeys \ DOMAIN ctor[i].data = {"name"}
    /\ Convertible(ctor[i].data["id"])
    /\ ctor[i].exc = "KeyError"
    /\ emoji[i] = NoObj

\* ------------------------------------- claims on enumeration and rendering

\* The pair a public field contributes: none when its value is null.
PairOf(e, attr) == IF e[attr] = None_ THEN <<>> ELSE << <<attr, e[attr]>> >>

\* C8: iter() yields exactly the (name, value) pairs of require_colons,
\* managed, id, name, roles, guild, in that order, skipping the fields whose
\* value is null; it never yields _state, and a present value (an empty
\* roles list too) is not skipped.
C8_IterYieldsPublicNonNullFields ==
  \A i \in Instances :
    iterOut[i] # NotRun =>
      LET e == emoji[i]
          out == iterOut[i]
      IN /\ out = PairOf(e, "require_colons") \o PairOf(e, "managed")
                  \o PairOf(e, "id") \o PairOf(e, "name")
                  \o PairOf(e, "roles") \o PairOf(e, "guild")
         /\ \A k \in 1..Len(out) : out[k][1] # "_state"
         /\ \E k \in 1..Len(out) : out[k] = <<"roles", e["roles"]>>

\* C8 witness: an Emoji with a null name and an empty roles list was
\* enumerated: five pairs, roles among them, name not.
C8_Witness ==
  \E i \in Instances :
    /\ iterOut[i] # NotRun
    /\ emoji[i]["name"] = None_
    /\ emoji[i]["roles"] = PyList(<<>>)
    /\ Len(iterOut[i]) = 5
    /\ iterOut[i][4] = <<"roles", PyList(<<>>)>>

\* C10: str() of an Emoji with name n and id i is exactly "<:", n, ":", the
\* decimal digits of i, ">" (name "foo", id 12345: <:foo:12345>), and the
\* conversion leaves every field as constructed.
C10_StrIsRenderToken ==
  \A i \in Instances :
    /\ emoji[i] # NoObj => emoji[i] = ctor[i].self
    /\ (strOut[i] # NotRun /\ emoji[i]["name"].t = "str") =>
         LET out == strOut[i].s
             n == emoji[i]["name"].s
             digits == SubSeq(out, Len(n) + 4, Len(out) - 1)
         IN /\ Len(out) >= Len(n) + 5
            /\ SubSeq(out, 1, 2) = <<"<", ":">>
            /\ SubSeq(out, 3, Len(n) + 2) = n
            /\ out[Len(n) + 3] = ":"
            /\ out[Len(out)] = ">"
            /\ \A k \in 1..Len(digits) : IsDigit(digits[k])
            /\ Len(digits) > 1 => digits[1] # "0"
            /\ ParseDigits(digits) = emoji[i]["id"].n
            /\ (n = Foo /\ emoji[i]["id"].n = 12345) =>
                 out = <<"<", ":", "f", "o", "o", ":", "1", "2", "3", "4", "5", ">">>

\* C10 witness: the Emoji named "foo" with id 12345 was rendered.
C10_Witness ==
  \E i \in Instances :
    /\ strOut[i] # NotRun
    /\ emoji[i]["name"] = PyStr(Foo)
    /\ emoji[i]["id"] = PyInt(12345)
    /\ strOut[i].s = <<"<", ":", "f", "o", "o", ":", "1", "2", "3", "4", "5", ">">>

\* ----------------------------------------------------- equality and hash

\* hash(a), hash(b), a == b and a != b for two constructed instances.
Compare(a, b) ==
  /\ emoji[a] # NoObj
  /\ emoji[b] # NoObj
  /\ cmp' = [a |-> a, b |-> b,
             eq |-> Eq(emoji[a], emoji[b]), ne |-> Ne(emoji[a], emoji[b]),
             ha |-> Hash(emoji[a]), hb |-> Hash(emoji[b])]
  /\ UNCHANGED <<guildRoles, emoji, ctor, iterOut, strOut, calls, httpLog>>

\* Two guilds with different role lists.
TwoGuilds ==
  [g \in {HomeGuild, OtherGuild} |->
     IF g = HomeGuild THEN Roles123 ELSE <<Role(3), Role(1)>>]

\* Well-formed payloads that differ in every field.
EqPayloads ==
  { MkPayload(rc, m, i, n, r) :
      rc \in BoolVals, m \in BoolVals,
      i \in {PyInt(1), PyStr(<<"1">>), PyStr(Id12345)}, n \in NameVals,
      r \in {Absent, PyList(<<PyInt(3), PyInt(1)>>)} }

InitEq == InitWith({1, 2}, TwoGuilds)

NextEq ==
  \/ \E i \in Instances, g \in DOMAIN guildRoles, data \in EqPayloads : Construct(i, g, data)
  \/ \E a, b \in Instances : Compare(a, b)

SpecEq == InitEq /\ [][NextEq]_vars

Request(c, route, self, name) ==
  [call |-> c, route |-> route, guild_id |-> self["guild"].g,
   emoji_id |-> self["id"], name |-> name]

\* The frame of a coroutine suspended at its `yield from`.
Suspended(c, op, i, name) ==
  [pc |-> "awaiting", op |-> op, inst |-> i, name |-> name, reply |-> "",
   outcome |-> "", pre |-> emoji[i], yields |-> calls[c].yields + 1]

\* delete() runs to its only suspension point:
\* yield from self._state.http.delete_custom_emoji(self.guild.id, self.id)
DeleteCall(c, i) ==
  /\ calls[c].pc = "new"
  /\ emoji[i] # NoObj
  /\ httpLog' = Append(httpLog, Request(c, "delete_custom_emoji", emoji[i], None_))
  /\ calls' = [calls EXCEPT ![c] = Suspended(c, "delete", i, None_)]
  /\ UNCHANGED <<guildRoles, emoji, ctor, iterOut, strOut, cmp>>

\* A faulty variant of edit(): the new name is stored locally before the request is awaited.
EditCallSetsNameFirst(c, i, name) ==
  /\ calls[c].pc = "new"
  /\ emoji[i] # NoObj
  /\ httpLog' = Append(httpLog, Request(c, "edit_custom_emoji", emoji[i], name))
  /\ calls' = [calls EXCEPT ![c] = Suspended(c, "edit", i, name)]
  /\ emoji' = [emoji EXCEPT ![i] = SetAttr(emoji[i], "name", name)]
  /\ UNCHANGED <<guildRoles, ctor, iterOut, strOut, cmp>>

\* edit(name=name) runs to its only suspension point:
\* yield from self._state.http.edit_custom_emoji(self.guild.id, self.id, name=name)
EditCall(c, i, name) ==
  /\ calls[c].pc = "new"
  /\ emoji[i] # NoObj
  /\ httpLog' = Append(httpLog, Request(c, "edit_custom_emoji", emoji[i], name))
  /\ calls' = [calls EXCEPT ![c] = Suspended(c, "edit", i, name)]
  /\ UNCHANGED <<guildRoles, emoji, ctor, iterOut, strOut, cmp>>

\* What the awaited transport call can end with.
Replies == {"ok", "Forbidden", "HTTPException"}

\* The transport finishes the request of invocation c.
TransportReply(c, o) ==
  /\ calls[c].pc = "awaiting"
  /\ calls[c].reply = ""
  /\ calls' = [calls EXCEPT ![c].reply = o]
  /\ UNCHANGED <<guildRoles, emoji, ctor, iterOut, strOut, cmp, httpLog>>

\* The caller cancels invocation c while it is suspended: CancelledError is
\* thrown into the awaited call, whether or not a reply is already waiting.
Cancel(c) ==
  /\ calls[c].pc = "awaiting"
  /\ calls[c].reply # "CancelledError"
  /\ calls' = [calls EXCEPT ![c].reply = "CancelledError"]
  /\ UNCHANGED <<guildRoles, emoji, ctor, iterOut, strOut, cmp, httpLog>>

\* A faulty variant of delete(): Forbidden is re-raised as the general HTTPException.
DeleteResumeWrapsForbidden(c) ==
  /\ calls[c].pc = "awaiting"
  /\ calls[c].op = "delete"
  /\ calls[c].reply # ""
  /\ calls' = [calls EXCEPT ![c].pc = "done",
                            ![c].outcome = IF calls[c].reply = "Forbidden"
                                           THEN "HTTPException" ELSE calls[c].reply]
  /\ UNCHANGED <<guildRoles, emoji, ctor, iterOut, strOut, cmp, httpLog>>

\* A faulty variant of delete(): a failed request is sent once more.
DeleteResumeRetries(c) ==
  /\ calls[c].pc = "awaiting"
  /\ calls[c].op = "delete"
  /\ calls[c].reply # ""
  /\ IF calls[c].reply \in {"Forbidden", "HTTPException"}
        /\ Len(SelectSeq(httpLog, LAMBDA r : r.call = c)) < 2
     THEN /\ httpLog' = Append(httpLog,
                Request(c, "delete_custom_emoji", emoji[calls[c].inst], None_))
          /\ calls' = [calls EXCEPT ![c].reply = ""]
     ELSE /\ calls' = [calls EXCEPT ![c].pc = "done", ![c].outcome = calls[c].reply]
          /\ UNCHANGED httpLog
  /\ UNCHANGED <<guildRoles, emoji, ctor, iterOut, strOut, cmp>>

\* delete() resumes from its `yield from`: the call's result is dropped, its
\* exception propagates as raised.
DeleteResume(c) ==
  /\ calls[c].pc = "awaiting"
  /\ calls[c].op = "delete"
  /\ calls[c].reply # ""
  /\ calls' = [calls EXCEPT ![c].pc = "done", ![c].outcome = calls[c].reply]
  /\ UNCHANGED <<guildRoles, emoji, ctor, iterOut, strOut, cmp, httpLog>>

\* A faulty variant of edit(): a successful rename is stored in the local name.
EditResumeSetsName(c) ==
  /\ calls[c].pc = "awaiting"
  /\ calls[c].op = "edit"
  /\ calls[c].reply # ""
  /\ calls' = [calls EXCEPT ![c].pc = "done", ![c].outcome = calls[c].reply]
  /\ emoji' = IF calls[c].reply = "ok"
              THEN [emoji EXCEPT ![calls[c].inst] =
                      SetAttr(emoji[calls[c].inst], "name", calls[c].name)]
              ELSE emoji
  /\ UNCHANGED <<guildRoles, ctor, iterOut, strOut, cmp, httpLog>>

\* edit() resumes from its `yield from`: nothing is assigned, the call's
\* exception propagates as raised.
EditResume(c) ==
  /\ calls[c].pc = "awaiting"
  /\ calls[c].op = "edit"
  /\ calls[c].reply # ""
  /\ calls' = [calls EXCEPT ![c].pc = "done", ![c].outcome = calls[c].reply]
  /\ UNCHANGED <<guildRoles, emoji, ctor, iterOut, strOut, cmp, httpLog>>

\* The names edit() is called with.
EditNames == {PyStr(Bar)}

\* The payloads of the instance the coroutines run on.
OpsPayloads ==
  { MkPayload(PyBool(TRUE), PyBool(FALSE), PyStr(<<"1">>), PyStr(Foo),
              PyList(<<PyInt(3), PyInt(1)>>)),
    MkPayload(PyBool(FALSE), PyBool(TRUE), PyStr(Id12345), None_, Absent) }

\* One instance, constructed, in either guild; no invocation started.
InitOps ==
  \E g \in {HomeGuild, OtherGuild}, data \in OpsPayloads :
    LET res == NewEmoji(GuildRef(g), StateRef, data, TwoGuilds[g])
    IN /\ guildRoles = TwoGuilds
       /\ emoji = [i \in {1} |-> res.self]
       /\ ctor = [i \in {1} |-> [guild |-> g, data |-> data, exc |-> res.exc,
                                 self |-> res.self]]
       /\ iterOut = [i \in {1} |-> NotRun]
       /\ strOut = [i \in {1} |-> NotRun]
       /\ cmp = NotRun
       /\ calls = [c \in 1..MaxCalls |-> NoCall]
       /\ httpLog = <<>>

NextOps ==
  \/ \E c \in DOMAIN calls, i \in Instances : DeleteCall(c, i)
  \/ \E c \in DOMAIN calls, i \in Instances, n \in EditNames : EditCall(c, i, n)
  \/ \E c \in DOMAIN calls, o \in Replies : TransportReply(c, o)
  \/ \E c \in DOMAIN calls : Cancel(c)
  \/ \E c \in DOMAIN calls : DeleteResume(c)
  \/ \E c \in DOMAIN calls : EditResume(c)

SpecOps == InitOps /\ [][NextOps]_vars

\* ------------------------------------------------ claims on delete and edit

\* The requests invocation c has handed to the transport.
RequestsOf(c) == SelectSeq(httpLog, LAMBDA r : r.call = c)

PublicFields == {"id", "name", "require_colons", "managed", "roles", "guild"}

\* C4: after edit(name=n) has completed successfully, the local name is the
\* one the Emoji had before the call, not n, and id, require_colons, managed,
\* roles and guild are unchanged too.
C4_EditSuccessKeepsLocalName ==
  \A c \in DOMAIN calls :
    (calls[c].op = "edit" /\ calls[c].pc = "done" /\ calls[c].outcome = "ok") =>
      LET self == emoji[calls[c].inst]
      IN /\ self["name"] = calls[c].pre["name"]
         /\ calls[c].name # calls[c].pre["name"] => self["name"] # calls[c].name
         /\ \A f \in PublicFields : self[f] = calls[c].pre[f]

\* C4 witness: edit(name="bar") on the Emoji named "foo" ended in success.
C4_Witness ==
  \E c \in DOMAIN calls :
    /\ calls[c].op = "edit"
    /\ calls[c].pc = "done"
    /\ calls[c].outcome = "ok"
    /\ calls[c].name = PyStr(Bar)
    /\ calls[c].pre["name"] = PyStr(Foo)
    /\ emoji[calls[c].inst]["name"] = PyStr(Foo)

\* C5: when the transport reports a permission failure for delete(), the
\* call ends with Forbidden and every field has the value it had before.
C5_DeleteForbiddenLeavesFields ==
  \A c \in DOMAIN calls :
    (calls[c].op = "delete" /\ calls[c].pc = "done" /\ calls[c].reply = "Forbidden") =>
      /\ calls[c].outcome = "Forbidden"
      /\ \A f \in PublicFields : emoji[calls[c].inst][f] = calls[c].pre[f]

\* C5 witness: a delete() answered with Forbidden has ended.
C5_Witness ==
  \E c \in DOMAIN calls :
    /\ calls[c].op = "delete"
    /\ calls[c].pc = "done"
    /\ calls[c].reply = "Forbidden"
    /\ calls[c].outcome = "Forbidden"

\* C6: each delete() issues exactly one delete_custom_emoji(guild id, emoji
\* id) and each edit(name) exactly one edit_custom_emoji(guild id, emoji id,
\* name); the invocation ends with that call's outcome, not converted, and
\* the request is not sent again after a failure.
C6_OneTransportCallPassedThrough ==
  \A c \in DOMAIN calls :
    LET reqs == RequestsOf(c)
        self == emoji[calls[c].inst]
    IN /\ calls[c].pc = "new" => Len(reqs) = 0
       /\ calls[c].pc # "new" =>
            /\ Len(reqs) = 1
            /\ reqs[1].guild_id = ctor[calls[c].inst].guild
            /\ reqs[1].emoji_id = self["id"]
            /\ calls[c].op = "delete" =>
                 reqs[1].route = "delete_custom_emoji" /\ reqs[1].name = None_
            /\ calls[c].op = "edit" =>
                 reqs[1].route = "edit_custom_emoji" /\ reqs[1].name = calls[c].name
       /\ calls[c].pc = "done" =>
            /\ calls[c].reply # ""
            /\ calls[c].outcome = calls[c].reply

\* C6 witness: a delete() and an edit() have both ended in failure, one
\* request each in the transport's log.
C6_Witness ==
  \E c, d \in DOMAIN calls :
    /\ calls[c].op = "delete" /\ calls[c].pc = "done"
    /\ calls[c].outcome = "HTTPException"
    /\ calls[d].op = "edit" /\ calls[d].pc = "done"
    /\ calls[d].outcome = "Forbidden"
    /\ Len(httpLog) = 2

\* C9: under every interleaving of concurrent delete() and edit(name)
\* invocations on one instance, with any outcome or cancelled while
\* suspended, the id and every other field keep their constructed values in
\* every reachable state; each invocation suspends exactly once, at the
\* transport call, and none waits for another: a new invocation can always
\* start, and one whose call has ended can always resume.
C9_ConcurrentCallsLeaveFields ==
  /\ \A i \in Instances : emoji[i] = ctor[i].self
  /\ \A c \in DOMAIN calls :
       /\ calls[c].pc = "new" =>
            /\ calls[c].yields = 0
            /\ \A i \in Instances :
                 /\ ENABLED DeleteCall(c, i)
                 /\ \A n \in EditNames : ENABLED EditCall(c, i, n)
       /\ calls[c].pc # "new" => calls[c].yields = 1
       /\ (calls[c].pc = "awaiting" /\ calls[c].reply # "") =>
            ENABLED (DeleteResume(c) \/ EditResume(c))

\* C9 witness: a delete() and an edit() are in flight on the same instance,
\* one of them cancelled, the other answered.
C9_Witness ==
  \E c, d \in DOMAIN calls :
    /\ calls[c].op = "delete" /\ calls[d].op = "edit"
    /\ calls[c].inst = calls[d].inst
    /\ calls[c].pc = "awaiting" /\ calls[d].pc = "awaiting"
    /\ {calls[c].reply, calls[d].reply} = {"CancelledError", "ok"}

====
